---- MODULE Spec2Model ----
\* Block allocator (block_allocator.h and block_allocator.odin): a two-level
\* segregated-fit suballocator over a byte range of up to 2^32-1 bytes.
\*
\* Every uint32_t / u32 of the program is a pair <<hi, lo>> of 16-bit limbs
\* (value = hi * 2^16 + lo), so that 32-bit wrap-around, 0xffffffff and the
\* head marker 0xf0000000 | bin are computed exactly as the code computes them.
EXTENDS Integers, Sequences, FiniteSets, TLC

\* Capacity of the block pool: BLOCK_ALLOCATOR_MAX_ALLOCS in C ("you can change
\* this if you like", 131072 by default), the max_allocs parameter in Odin.
MaxAllocs == 4

\* Number of alloc and free calls the caller makes after init
MaxCalls == 7

VARIABLES
    lang,        \* which implementation runs: "c" or "odin"
    total_size,  \* the size given to init
    allocator,   \* block_allocator_t / Block_Allocator
    allocs,      \* the caller's outstanding allocations (the test driver's allocs[])
    status,      \* "ok", or "fault" once a call made an out-of-bounds access
    last,        \* the last public call: its kind, argument and result
    calls        \* how many alloc and free calls were made

vars == <<lang, total_size, allocator, allocs, status, last, calls>>

-----------------------------------------------------------------------------
\* 32-bit unsigned arithmetic on limb pairs

U32(n) == <<n \div 65536, n % 65536>>

ToInt(v) == v[1] * 65536 + v[2]

Add32(a, b) ==
    LET lo == a[2] + b[2]
        hi == a[1] + b[1] + (lo \div 65536)
    IN  <<hi % 65536, lo % 65536>>

Sub32(a, b) ==
    LET lo == a[2] - b[2]
        hi == a[1] - b[1] - (IF lo < 0 THEN 1 ELSE 0)
    IN  <<(hi + 65536) % 65536, (lo + 65536) % 65536>>

Lt32(a, b) == a[1] < b[1] \/ (a[1] = b[1] /\ a[2] < b[2])

Le32(a, b) == a = b \/ Lt32(a, b)

RECURSIVE BitAnd(_, _)
BitAnd(x, y) ==
    IF x = 0 \/ y = 0 THEN 0
    ELSE (x % 2) * (y % 2) + 2 * BitAnd(x \div 2, y \div 2)

RECURSIVE BitOr(_, _)
BitOr(x, y) ==
    IF x = 0 THEN y
    ELSE IF y = 0 THEN x
    ELSE (IF x % 2 = 1 \/ y % 2 = 1 THEN 1 ELSE 0) + 2 * BitOr(x \div 2, y \div 2)

And32(a, b) == <<BitAnd(a[1], b[1]), BitAnd(a[2], b[2])>>

Or32(a, b) == <<BitOr(a[1], b[1]), BitOr(a[2], b[2])>>

Not32(a) == <<65535 - a[1], 65535 - a[2]>>

Not8(x) == 255 - x

\* (uint32_t)(1 << k); a shift by 32 or more gives 0 (Odin's definition; in C
\* the only such shift is guarded by the top_index == 31 early return)
Shl1(k) ==
    IF k >= 32 THEN <<0, 0>>
    ELSE IF k >= 16 THEN <<2 ^ (k - 16), 0>>
    ELSE <<0, 2 ^ k>>

\* (uint8_t)(1 << k)
Shl1_8(k) == IF k >= 8 THEN 0 ELSE 2 ^ k

RECURSIVE Log2(_)
Log2(x) == IF x <= 1 THEN 0 ELSE 1 + Log2(x \div 2)

\* __builtin_clz / bits.count_leading_zeros on 32 bits (32 for 0, as in Odin)
Clz32(v) ==
    IF v[1] # 0 THEN 15 - Log2(v[1])
    ELSE IF v[2] # 0 THEN 31 - Log2(v[2])
    ELSE 32

RECURSIVE Ctz(_, _)
Ctz(x, width) ==
    IF width = 0 THEN 0
    ELSE IF x % 2 = 1 THEN 0
    ELSE 1 + Ctz(x \div 2, width - 1)

\* __builtin_ctz / bits.count_trailing_zeros on 32 bits
Ctz32(v) == IF v[2] # 0 THEN Ctz(v[2], 16) ELSE 16 + Ctz(v[1], 16)

\* bits.count_trailing_zeros on a u8, __builtin_ctz on a promoted uint8_t
Ctz8(x) == Ctz(x, 8)

\* bit i of a 32-bit value
Bit32(v, i) ==
    IF i >= 32 THEN 0
    ELSE IF i >= 16 THEN (v[1] \div (2 ^ (i - 16))) % 2
    ELSE (v[2] \div (2 ^ i)) % 2

\* (v >> k) & 0x7
Shr32And7(v, k) == Bit32(v, k) + 2 * Bit32(v, k + 1) + 4 * Bit32(v, k + 2)

-----------------------------------------------------------------------------
\* Sentinels

BLOCK_ALLOCATOR_UNUSED == <<65535, 65535>>

BLOCK_ALLOCATOR_HEAD_BITS == <<61440, 0>>

BLOCK_ALLOCATOR_HEAD_MASK == <<4095, 65535>>

BLOCK_ALLOCATOR_SUCCESS == "success"

BLOCK_ALLOCATOR_OUT_OF_MEMORY == "out_of_memory"

ZERO32 == <<0, 0>>

ONE32 == <<0, 1>>

\* an index the code may use on blocks[] / free_blocks[]
InPool(i) == i[1] = 0 /\ i[2] < MaxAllocs

-----------------------------------------------------------------------------
\* Size to bin

\* the top index taken one bit higher: 29 - leading_zeros
size_to_bin_index_shifted(size) ==
    LET Top(leading_zeros) == IF leading_zeros > 28 THEN 0 ELSE 29 - leading_zeros
        Bin(top, bottom)   == [index |-> top * 8 + bottom, top |-> top,
                               bottom |-> bottom]
        WithTop(top)       == Bin(top, Shr32And7(size, top))
    IN  WithTop(Top(Clz32(size)))

size_to_bin_index(size) ==
    LET Top(leading_zeros) == IF leading_zeros > 28 THEN 0 ELSE 28 - leading_zeros
        Bin(top, bottom)   == [index |-> top * 8 + bottom, top |-> top,
                               bottom |-> bottom]
        WithTop(top)       == Bin(top, Shr32And7(size, top))
    IN  WithTop(Top(Clz32(size)))

block_allocator_is_used(block) ==
    block.bin_next = BLOCK_ALLOCATOR_UNUSED /\ block.bin_prev = BLOCK_ALLOCATOR_UNUSED

-----------------------------------------------------------------------------
\* Internal operations. Each takes the allocator record a and returns
\* [a |-> the allocator afterwards, res |-> the return value,
\*  fault |-> TRUE when the code indexed blocks[], free_blocks[] or bin_lists[]
\*            out of bounds (a bounds-check panic in Odin, undefined in C)].

Block(offset, size, bin_prev, bin_next, mem_prev, mem_next) ==
    [offset |-> offset, size |-> size, bin_prev |-> bin_prev,
     bin_next |-> bin_next, mem_prev |-> mem_prev, mem_next |-> mem_next]

\* top_bins |= (1 << top_index); bottom_bins[top_index] |= (1 << bottom_index)
MarkResident(a, top_index, bottom_index) ==
    [a EXCEPT !.top_bins = Or32(@, Shl1(top_index)),
              !.bottom_bins[top_index] = BitOr(@, Shl1_8(bottom_index))]

\* clearing the bottom bit only, the top bit left as it is
MarkEmptyBottomOnly(a, top_index, bottom_index) ==
    [a EXCEPT !.bottom_bins[top_index] = BitAnd(@, Not8(Shl1_8(bottom_index)))]

\* bottom_bins[top_index] &= ~(1 << bottom_index);
\* if (bottom_bins[top_index] == 0) top_bins &= ~(1 << top_index)
MarkEmpty(a, top_index, bottom_index) ==
    LET Clear(bottoms) ==
            [a EXCEPT !.bottom_bins[top_index] = bottoms,
                      !.top_bins = IF bottoms = 0
                                   THEN And32(@, Not32(Shl1(top_index)))
                                   ELSE @]
    IN  Clear(BitAnd(a.bottom_bins[top_index], Not8(Shl1_8(bottom_index))))

\* The part of insert after the capacity check and the bitmap update.
\* the inserted block given no successor on its bin list
NextOfInsertedDropped(head_block_index) == BLOCK_ALLOCATOR_UNUSED

\* the bin_next of the inserted block: the former head of the bin
NextOfInserted(head_block_index) == head_block_index

InsertLink(a, index, offset, size, mem_prev, mem_next) ==
    LET block_index      == a.free_blocks[a.free_offset[2]]
        head_block_index == a.bin_lists[index]
        fault ==
            \/ ~InPool(a.free_offset)
            \/ ~InPool(block_index)
            \/ head_block_index # BLOCK_ALLOCATOR_UNUSED /\ ~InPool(head_block_index)
            \/ mem_prev # BLOCK_ALLOCATOR_UNUSED /\ ~InPool(mem_prev)
            \/ mem_next # BLOCK_ALLOCATOR_UNUSED /\ ~InPool(mem_next)
        LinkBin(b)  == IF head_block_index # BLOCK_ALLOCATOR_UNUSED
                       THEN [b EXCEPT ![head_block_index[2]].bin_prev = block_index]
                       ELSE b
        LinkPrev(b) == IF mem_prev # BLOCK_ALLOCATOR_UNUSED
                       THEN [b EXCEPT ![mem_prev[2]].mem_next = block_index]
                       ELSE b
        LinkNext(b) == IF mem_next # BLOCK_ALLOCATOR_UNUSED
                       THEN [b EXCEPT ![mem_next[2]].mem_prev = block_index]
                       ELSE b
    IN  IF fault
        THEN [a |-> a, res |-> BLOCK_ALLOCATOR_OUT_OF_MEMORY, fault |-> TRUE]
        ELSE [a |-> [a EXCEPT
                  !.free_offset = Add32(@, ONE32),
                  !.blocks = LinkNext(LinkPrev(LinkBin(
                      [@ EXCEPT ![block_index[2]] =
                          Block(offset, size,
                                Or32(BLOCK_ALLOCATOR_HEAD_BITS, U32(index)),
                                NextOfInserted(head_block_index), mem_prev,
                                mem_next)]))),
                  !.bin_lists[index] = block_index,
                  !.head_block = IF offset = ZERO32 THEN block_index ELSE @],
              res |-> BLOCK_ALLOCATOR_SUCCESS, fault |-> FALSE]

\* the inserted block filed under the bin of the next size
BinOfNextSize(size) == size_to_bin_index(Add32(size, ONE32))

\* index = size_to_bin_index(size, &top_index, &bottom_index), in insert
BinOfInserted(size) == size_to_bin_index(size)

\* block_allocator_insert (C): the capacity check comes first
block_allocator_insert(a, offset, size, mem_prev, mem_next) ==
    IF a.free_offset = U32(MaxAllocs)
    THEN [a |-> a, res |-> BLOCK_ALLOCATOR_OUT_OF_MEMORY, fault |-> FALSE]
    ELSE LET Into(bin) ==
                 InsertLink(MarkResident(a, bin.top, bin.bottom),
                            bin.index, offset, size, mem_prev, mem_next)
         IN  Into(BinOfInserted(size))

\* insert_block (Odin): the bitmaps are updated before the capacity check
insert_block(a, offset, size, mem_prev, mem_next) ==
    LET Marked(a1, index) ==
            IF a1.free_offset = U32(MaxAllocs)
            THEN [a |-> a1, res |-> BLOCK_ALLOCATOR_OUT_OF_MEMORY, fault |-> FALSE]
            ELSE InsertLink(a1, index, offset, size, mem_prev, mem_next)
        Into(bin) == Marked(MarkResident(a, bin.top, bin.bottom), bin.index)
    IN  Into(BinOfInserted(size))

Insert(lg, a, offset, size, mem_prev, mem_next) ==
    IF lg = "c"
    THEN block_allocator_insert(a, offset, size, mem_prev, mem_next)
    ELSE insert_block(a, offset, size, mem_prev, mem_next)

\* the predecessor on the bin list left pointing at the removed block
UnlinkFromPrevSkipped(blocks, block) == blocks

\* allocator->blocks[block.bin_prev].bin_next = block.bin_next
UnlinkFromPrev(blocks, block) ==
    [blocks EXCEPT ![block.bin_prev[2]].bin_next = block.bin_next]

\* block_allocator_remove / remove_block (the two are the same code)
block_allocator_remove(a, block_index) ==
    LET block == a.blocks[block_index[2]]
        Remove(free_offset, is_head, index32) ==
            LET index        == index32[2]
                top_index    == index \div 8
                bottom_index == index % 8
                a1 == [a EXCEPT !.free_offset = free_offset,
                                !.free_blocks[free_offset[2]] = block_index]
                fault ==
                    \/ ~InPool(block_index)
                    \/ ~InPool(free_offset)
                    \/ ~is_head /\ ~InPool(block.bin_prev)
                    \/ is_head /\ ~(index32[1] = 0 /\ index < 256)
                    \/ block.bin_next # BLOCK_ALLOCATOR_UNUSED
                       /\ ~InPool(block.bin_next)
                BackLink(b) ==
                    IF block.bin_next # BLOCK_ALLOCATOR_UNUSED
                    THEN [b EXCEPT ![block.bin_next[2]].bin_prev = block.bin_prev]
                    ELSE b
                a2 == [a1 EXCEPT !.bin_lists[index] = block.bin_next]
            IN  IF fault THEN [a |-> a, fault |-> TRUE]
                ELSE IF ~is_head
                THEN [a |-> [a1 EXCEPT !.blocks =
                                BackLink(UnlinkFromPrev(@, block))],
                      fault |-> FALSE]
                ELSE IF block.bin_next # BLOCK_ALLOCATOR_UNUSED
                THEN [a |-> [a2 EXCEPT !.blocks = BackLink(@)], fault |-> FALSE]
                ELSE [a |-> MarkEmpty(a2, top_index, bottom_index), fault |-> FALSE]
    IN  Remove(Sub32(a.free_offset, ONE32),
               And32(block.bin_prev, BLOCK_ALLOCATOR_HEAD_BITS) # ZERO32,
               And32(block.bin_prev, BLOCK_ALLOCATOR_HEAD_MASK))

\* A block record the code never wrote: zeroes from Odin's make. In C it is
\* what malloc returned, which the code never reads: every index it stores in
\* a link, a bin head, head_block or a handle is a block_index that insert
\* wrote in full first.
RawBlock == Block(ZERO32, ZERO32, ZERO32, ZERO32, ZERO32, ZERO32)

\* block_allocator_init
block_allocator_init(lg, size) ==
    LET a0 == [top_bins    |-> ZERO32,
               bottom_bins |-> [i \in 0..31 |-> 0],
               bin_lists   |-> [i \in 0..255 |-> BLOCK_ALLOCATOR_UNUSED],
               blocks      |-> [i \in 0..(MaxAllocs - 1) |-> RawBlock],
               head_block  |-> ZERO32,
               free_blocks |-> [i \in 0..(MaxAllocs - 1) |-> U32(i)],
               free_offset |-> ZERO32]
    IN  Insert(lg, a0, ZERO32, size, BLOCK_ALLOCATOR_UNUSED, BLOCK_ALLOCATOR_UNUSED).a

-----------------------------------------------------------------------------
\* alloc

NoAllocation == [offset |-> ZERO32, size |-> ZERO32, metadata |-> ZERO32]

Allocation(offset, size, metadata) ==
    [offset |-> offset, size |-> size, metadata |-> metadata]

\* the mask that keeps the bin of the size itself: ~((1 << bottom_index) - 1)
BiggerBottomsInclusive(bottoms, bottom_index) ==
    BitAnd(bottoms, Not8((Shl1_8(bottom_index) + 255) % 256))

\* bottoms & ~((1 << (bottom_index + 1)) - 1), in 8 bits
BiggerBottoms(bottoms, bottom_index) ==
    BitAnd(bottoms, Not8((Shl1_8(bottom_index + 1) + 255) % 256))

\* the mask that keeps the top bin of the size itself: ~((1 << top_index) - 1)
BiggerTopsInclusive(top_bins, top_index) ==
    And32(top_bins, Not32(Sub32(Shl1(top_index), ONE32)))

\* top_bins & ~((1 << (top_index + 1)) - 1)
BiggerTops(top_bins, top_index) ==
    And32(top_bins, Not32(Sub32(Shl1(top_index + 1), ONE32)))

\* block_allocator_alloc, lines 169-186: the smallest resident bin strictly
\* above the bin of size, or none
FindBinC(a, size) ==
    LET NotFound == [found |-> FALSE, top |-> 0, bottom |-> 0]
        InTop(top_index) ==
            [found |-> TRUE, top |-> top_index,
             bottom |-> Ctz8(a.bottom_bins[top_index])]
        Search(bin, bigger_bottoms, bigger_tops) ==
            IF bigger_bottoms # 0
            THEN [found |-> TRUE, top |-> bin.top, bottom |-> Ctz8(bigger_bottoms)]
            ELSE IF bin.top = 31 THEN NotFound
            ELSE IF bigger_tops = ZERO32 THEN NotFound
            ELSE InTop(Ctz32(bigger_tops))
        From(bin) ==
            Search(bin,
                   IF bin.bottom = 7 THEN 0
                   ELSE BiggerBottoms(a.bottom_bins[bin.top], bin.bottom),
                   BiggerTops(a.top_bins, bin.top))
    IN  From(size_to_bin_index(size))

\* block_alloc, lines 90-111
FindBinOdin(a, size) ==
    LET NotFound == [found |-> FALSE, top |-> 0, bottom |-> 0]
        InTop(top_index) ==
            [found |-> TRUE, top |-> top_index,
             bottom |-> Ctz8(a.bottom_bins[top_index])]
        Search(bin, bigger_bottoms, bigger_tops) ==
            IF bigger_bottoms # 0
            THEN [found |-> TRUE, top |-> bin.top, bottom |-> Ctz8(bigger_bottoms)]
            ELSE IF bigger_tops = ZERO32 THEN NotFound
            ELSE InTop(Ctz32(bigger_tops))
        From(bin) ==
            Search(bin,
                   BiggerBottoms(a.bottom_bins[bin.top], bin.bottom),
                   BiggerTops(a.top_bins, bin.top))
    IN  From(size_to_bin_index(size))

FindBin(lg, a, size) ==
    IF lg = "c" THEN FindBinC(a, size) ELSE FindBinOdin(a, size)

\* the pop that takes the block off its bin but leaves its bin links as they
\* were
PopHeadKeepsLinks(a, top_index, bottom_index, block_index) ==
    LET block == a.blocks[block_index[2]]
        NewHead(a1, index) ==
            IF block.bin_next # BLOCK_ALLOCATOR_UNUSED
            THEN [a1 EXCEPT !.blocks[block.bin_next[2]].bin_prev =
                                Or32(BLOCK_ALLOCATOR_HEAD_BITS, U32(index))]
            ELSE MarkEmpty(a1, top_index, bottom_index)
        Pop(index) == NewHead([a EXCEPT !.bin_lists[index] = block.bin_next], index)
    IN  Pop(BitOr(top_index * 8, bottom_index))

\* Pop the head block_index of bin (top_index, bottom_index) and mark it used
PopHead(a, top_index, bottom_index, block_index) ==
    LET block == a.blocks[block_index[2]]
        MarkUsed(a2) ==
            [a2 EXCEPT !.blocks[block_index[2]].bin_prev = BLOCK_ALLOCATOR_UNUSED,
                       !.blocks[block_index[2]].bin_next = BLOCK_ALLOCATOR_UNUSED]
        NewHead(a1, index) ==
            IF block.bin_next # BLOCK_ALLOCATOR_UNUSED
            THEN [a1 EXCEPT !.blocks[block.bin_next[2]].bin_prev =
                                Or32(BLOCK_ALLOCATOR_HEAD_BITS, U32(index))]
            ELSE MarkEmpty(a1, top_index, bottom_index)
        Pop(index) ==
            MarkUsed(NewHead([a EXCEPT !.bin_lists[index] = block.bin_next], index))
    IN  Pop(BitOr(top_index * 8, bottom_index))

\* the remainder placed at the offset of the popped block
RemainderOffsetUnshifted(block, size) == block.offset

\* block->offset + size, where the remainder of a split starts
RemainderOffset(block, size) == Add32(block.offset, size)

\* The split: insert the remainder, then shrink the popped block
SplitAndReturn(lg, a2, size, block_index) ==
    LET block == a2.blocks[block_index[2]]
        Return(a3) ==
            [a |-> a3, res |-> BLOCK_ALLOCATOR_SUCCESS,
             alloc |-> Allocation(a3.blocks[block_index[2]].offset,
                                  a3.blocks[block_index[2]].size, block_index),
             fault |-> FALSE]
        Inserted(r) ==
            IF r.fault
            THEN [a |-> a2, res |-> BLOCK_ALLOCATOR_OUT_OF_MEMORY,
                  alloc |-> NoAllocation, fault |-> TRUE]
            ELSE IF r.res = BLOCK_ALLOCATOR_OUT_OF_MEMORY
            THEN [a |-> r.a, res |-> BLOCK_ALLOCATOR_OUT_OF_MEMORY,
                  alloc |-> NoAllocation, fault |-> FALSE]
            ELSE Return([r.a EXCEPT !.blocks[block_index[2]].size = size])
        Split(remaining_size) ==
            Inserted(IF remaining_size # ZERO32
                     THEN Insert(lg, a2, RemainderOffset(block, size), remaining_size,
                                 block_index, block.mem_next)
                     ELSE [a |-> a2, res |-> BLOCK_ALLOCATOR_SUCCESS,
                           fault |-> FALSE])
    IN  Split(Sub32(block.size, size))

Failed(a) ==
    [a |-> a, res |-> BLOCK_ALLOCATOR_OUT_OF_MEMORY, alloc |-> NoAllocation,
     fault |-> FALSE]

Faulted(a) ==
    [a |-> a, res |-> BLOCK_ALLOCATOR_OUT_OF_MEMORY, alloc |-> NoAllocation,
     fault |-> TRUE]

\* block_allocator_alloc (C)
block_allocator_alloc(a, size) ==
    IF size = ZERO32 THEN Failed(a)
    ELSE LET Take(f, block_index) ==
                 LET block == a.blocks[block_index[2]]
                 IN  IF ~f.found THEN Failed(a)
                     ELSE IF f.bottom > 7 \/ ~InPool(block_index) THEN Faulted(a)
                     ELSE IF block.bin_next # BLOCK_ALLOCATOR_UNUSED
                             /\ ~InPool(block.bin_next)
                     THEN Faulted(a)
                     ELSE SplitAndReturn("c", PopHead(a, f.top, f.bottom, block_index),
                                         size, block_index)
             Found(f) == Take(f, a.bin_lists[BitOr(f.top * 8, f.bottom)])
         IN  Found(FindBinC(a, size))

\* block_alloc (Odin): no zero-size check; refuses a head block smaller than size
block_alloc(a, size) ==
    LET Take(f, index) ==
            LET block_index == a.bin_lists[index]
                block == a.blocks[block_index[2]]
            IN  IF ~f.found THEN Failed(a)
                ELSE IF index > 255 \/ ~InPool(block_index) THEN Faulted(a)
                ELSE IF Lt32(block.size, size) THEN Failed(a)
                ELSE IF block.bin_next # BLOCK_ALLOCATOR_UNUSED
                        /\ ~InPool(block.bin_next)
                THEN Faulted(a)
                ELSE SplitAndReturn("odin", PopHead(a, f.top, f.bottom, block_index),
                                    size, block_index)
        Found(f) == Take(f, BitOr(f.top * 8, f.bottom))
    IN  Found(FindBinOdin(a, size))

Alloc(lg, a, size) ==
    IF lg = "c" THEN block_allocator_alloc(a, size) ELSE block_alloc(a, size)

-----------------------------------------------------------------------------
\* free

\* the test of a neighbour with the negation dropped
NeighbourIsUsed(a, nb) == block_allocator_is_used(a.blocks[nb[2]])

\* !block_allocator_is_used(&allocator->blocks[nb]), the test that decides
\* whether free absorbs the neighbour nb
NeighbourIsFree(a, nb) == ~block_allocator_is_used(a.blocks[nb[2]])

\* the size of the absorbed neighbour left out
AbsorbedSizeDropped(size, nb_size) == size

\* block.size += prev_block.size; block.size += next_block.size
AbsorbedSize(size, nb_size) == Add32(size, nb_size)

\* Absorb the neighbour nb of the block being freed, when it exists and is free.
\* st is [a, block, fault]; side is "prev" or "next".
Absorb(st, side) ==
    LET nb == IF side = "prev" THEN st.block.mem_prev ELSE st.block.mem_next
        nb_block == st.a.blocks[nb[2]]
        Removed(r) ==
            IF r.fault THEN [st EXCEPT !.fault = TRUE]
            ELSE IF side = "prev"
            THEN [a |-> r.a, fault |-> FALSE,
                  block |-> [st.block EXCEPT !.offset = nb_block.offset,
                                             !.size = AbsorbedSize(@, nb_block.size),
                                             !.mem_prev = nb_block.mem_prev]]
            ELSE [a |-> r.a, fault |-> FALSE,
                  block |-> [st.block EXCEPT !.size = AbsorbedSize(@, nb_block.size),
                                             !.mem_next = nb_block.mem_next]]
    IN  IF st.fault \/ nb = BLOCK_ALLOCATOR_UNUSED THEN st
        ELSE IF ~InPool(nb) THEN [st EXCEPT !.fault = TRUE]
        ELSE IF ~NeighbourIsFree(st.a, nb) THEN st
        ELSE Removed(block_allocator_remove(st.a, nb))

\* the count lowered, the index of the freed block not written to the stack
ReleaseSlotUnwritten(a, alloc, free_offset) ==
    [a EXCEPT !.free_offset = free_offset]

\* the slot of the freed block written back, the count left as it is
ReleaseSlotKeepsCount(a, alloc, free_offset) ==
    [a EXCEPT !.free_blocks[free_offset[2]] = alloc.metadata]

\* allocator->free_offset -= 1;
\* allocator->free_blocks[allocator->free_offset] = alloc->metadata
ReleaseSlot(a, alloc, free_offset) ==
    [a EXCEPT !.free_offset = free_offset,
              !.free_blocks[free_offset[2]] = alloc.metadata]

\* free up to its call of insert (C, lines 211-225): the freed slot released
\* and the free neighbours absorbed; block is the local copy insert is given
FreeRelease(a, alloc) ==
    LET Release(free_offset) ==
            IF ~InPool(alloc.metadata) \/ ~InPool(free_offset)
            THEN [a |-> a, block |-> RawBlock, fault |-> TRUE]
            ELSE Absorb(Absorb(
                     [a |-> ReleaseSlot(a, alloc, free_offset),
                      block |-> a.blocks[alloc.metadata[2]],
                      fault |-> FALSE],
                     "prev"), "next")
    IN  Release(Sub32(a.free_offset, ONE32))

\* block_allocator_free (C, lines 211-227) and block_free (Odin)
FreeBody(lg, a, alloc) ==
    LET Inserted(r) ==
            IF r.fault THEN [a |-> a, fault |-> TRUE] ELSE [a |-> r.a, fault |-> FALSE]
        Merged(s2) ==
            IF s2.fault THEN [a |-> a, fault |-> TRUE]
            ELSE Inserted(Insert(lg, s2.a, s2.block.offset, s2.block.size,
                                 s2.block.mem_prev, s2.block.mem_next))
    IN  Merged(FreeRelease(a, alloc))

block_allocator_free(a, alloc) ==
    IF alloc.size = ZERO32 THEN [a |-> a, fault |-> FALSE]
    ELSE FreeBody("c", a, alloc)

block_free(a, alloc) == FreeBody("odin", a, alloc)

Free(lg, a, alloc) ==
    IF lg = "c" THEN block_allocator_free(a, alloc) ELSE block_free(a, alloc)

-----------------------------------------------------------------------------
\* The caller: init once, then any interleaving of alloc(size) and free of an
\* outstanding allocation (the loop of test.c / test.odin)

\* sizes given to init: a small one, 4096 and the largest (0xffffffff)
TotalSizes == {U32(16), U32(4096), BLOCK_ALLOCATOR_UNUSED}

\* sizes given to alloc: 0, total_size, and sizes on both sides of 8 for the
\* small total; 1024, 2048 and 768 for 4096; 0, 256 and total_size for the
\* largest
AllocSizes(total) ==
    IF total = U32(16) THEN {ZERO32, U32(1), U32(8), total}
    ELSE IF total = U32(4096) THEN {U32(768), U32(1024), U32(2048)}
    ELSE {ZERO32, U32(256), total}

Call(op, size, res, alloc, after_alloc, before) ==
    [op |-> op, size |-> size, res |-> res, alloc |-> alloc,
     after_alloc |-> after_alloc, before |-> before]

Init ==
    /\ lang \in {"c", "odin"}
    /\ total_size \in TotalSizes
    /\ allocator = block_allocator_init(lang, total_size)
    /\ allocs = {}
    /\ calls = 0
    /\ status = "ok"
    /\ last = Call("init", total_size, BLOCK_ALLOCATOR_SUCCESS, NoAllocation, FALSE,
                   allocator)

AllocStep(size) ==
    /\ status = "ok"
    /\ calls < MaxCalls
    /\ calls' = calls + 1
    /\ \E r \in {Alloc(lang, allocator, size)} :
           IF r.fault
           THEN /\ status' = "fault"
                /\ last' = Call("alloc", size, "fault", NoAllocation, FALSE, allocator)
                /\ UNCHANGED <<allocator, allocs>>
           ELSE /\ allocator' = r.a
                /\ allocs' = IF r.res = BLOCK_ALLOCATOR_SUCCESS
                             THEN allocs \cup {r.alloc} ELSE allocs
                /\ last' = Call("alloc", size, r.res, r.alloc, FALSE, allocator)
                /\ UNCHANGED status
    /\ UNCHANGED <<lang, total_size>>

FreeStep(alloc) ==
    /\ status = "ok"
    /\ calls < MaxCalls
    /\ calls' = calls + 1
    /\ alloc \in allocs
    /\ \E r \in {Free(lang, allocator, alloc)} :
       LET after == /\ last.op = "alloc"
                    /\ last.res = BLOCK_ALLOCATOR_SUCCESS
                    /\ last.alloc = alloc
       IN  IF r.fault
           THEN /\ status' = "fault"
                /\ last' = Call("free", alloc.size, "fault", alloc, FALSE, allocator)
                /\ UNCHANGED <<allocator, allocs>>
           ELSE /\ allocator' = r.a
                /\ allocs' = allocs \ {alloc}
                /\ last' = Call("free", alloc.size, BLOCK_ALLOCATOR_SUCCESS, alloc,
                                after,
                                IF after THEN last.before ELSE allocator)
                /\ UNCHANGED status
    /\ UNCHANGED <<lang, total_size>>

Next ==
    \/ \E size \in AllocSizes(total_size) : AllocStep(size)
    \/ \E alloc \in allocs : FreeStep(alloc)

Spec == Init /\ [][Next]_vars

\* The caller that asks a fresh allocator for everything: init(total_size),
\* then alloc(total_size), over total sizes around every bin boundary
FreshTotals ==
    {U32(n) : n \in 1..24}
    \cup {Shl1(k) : k \in 5..31}
    \cup {Sub32(Shl1(k), ONE32) : k \in 5..31}
    \cup {Add32(Shl1(k), ONE32) : k \in 5..31}
    \cup {BLOCK_ALLOCATOR_UNUSED}

InitFresh ==
    /\ lang \in {"c", "odin"}
    /\ total_size \in FreshTotals
    /\ allocator = block_allocator_init(lang, total_size)
    /\ allocs = {}
    /\ calls = 0
    /\ status = "ok"
    /\ last = Call("init", total_size, BLOCK_ALLOCATOR_SUCCESS, NoAllocation, FALSE,
                   allocator)

AllocTotal == calls = 0 /\ AllocStep(total_size)

SpecFresh == InitFresh /\ [][AllocTotal]_vars

\* size_to_bin_index applied to total_size and to a second size; both results
\* are recorded
BinIndex(size) ==
    /\ calls = 0
    /\ calls' = 1
    /\ last' = [op |-> "size_to_bin_index", size |-> size,
                bin_of_total |-> size_to_bin_index(total_size),
                bin_of_size |-> size_to_bin_index(size)]
    /\ UNCHANGED <<lang, total_size, allocator, allocs, status>>

BinIndexStep == \E size \in FreshTotals : BinIndex(size)

SpecBin == InitFresh /\ [][BinIndexStep]_vars

Slots == 0..(MaxAllocs - 1)

\* indices the pool has handed out: not among free_blocks[free_offset..]
LiveSlots(a) ==
    Slots \ {a.free_blocks[i][2] : i \in {j \in Slots : j >= a.free_offset[2]}}

\* a head() that keeps a cursor: head_block moved to the successor
block_allocator_head_advancing(a) ==
    [a |-> [a EXCEPT !.head_block = a.blocks[a.head_block[2]].mem_next],
     block |-> a.blocks[a.head_block[2]],
     res |-> BLOCK_ALLOCATOR_SUCCESS, fault |-> ~InPool(a.head_block)]

\* block_allocator_head: *out_block = allocator->blocks[allocator->head_block],
\* out_block being storage of the caller
block_allocator_head(a) ==
    [a |-> a, block |-> a.blocks[a.head_block[2]],
     res |-> BLOCK_ALLOCATOR_SUCCESS, fault |-> ~InPool(a.head_block)]

\* block_allocator_next: the copy of blocks[block->mem_next], or failure at
\* the end of the chain (the Odin build then returns a zeroed block, the C
\* build leaves out_block as it was)
block_allocator_next(lg, a, block, out_block) ==
    IF block.mem_next = BLOCK_ALLOCATOR_UNUSED
    THEN [a |-> a, block |-> IF lg = "c" THEN out_block ELSE RawBlock,
          res |-> BLOCK_ALLOCATOR_OUT_OF_MEMORY, fault |-> FALSE]
    ELSE [a |-> a, block |-> a.blocks[block.mem_next[2]],
          res |-> BLOCK_ALLOCATOR_SUCCESS, fault |-> ~InPool(block.mem_next)]

\* a read-only call and what it returned
Read(op, r, before) ==
    [op |-> op, size |-> ZERO32, res |-> r.res, alloc |-> NoAllocation,
     after_alloc |-> FALSE, before |-> before, block |-> r.block]

\* the caller takes the snapshot of the first block
HeadStep ==
    /\ status = "ok"
    /\ \E r \in {block_allocator_head(allocator)} :
           /\ ~r.fault
           /\ allocator' = r.a
           /\ last' = Read("head", r, allocator)
    /\ UNCHANGED <<lang, total_size, allocs, status, calls>>

\* the caller, holding the snapshot of live block i, asks for its successor
NextStep(i) ==
    /\ status = "ok"
    /\ i \in LiveSlots(allocator)
    /\ \E r \in {block_allocator_next(lang, allocator, allocator.blocks[i],
                                      allocator.blocks[i])} :
           /\ ~r.fault
           /\ allocator' = r.a
           /\ last' = Read("next", r, allocator)
    /\ UNCHANGED <<lang, total_size, allocs, status, calls>>

\* the caller asks whether live block i is used
IsUsedStep(i) ==
    /\ status = "ok"
    /\ i \in LiveSlots(allocator)
    /\ allocator' = allocator
    /\ last' = Read("is_used",
                    [res |-> block_allocator_is_used(allocator.blocks[i]),
                     block |-> allocator.blocks[i]],
                    allocator)
    /\ UNCHANGED <<lang, total_size, allocs, status, calls>>

NextRead ==
    \/ \E size \in AllocSizes(total_size) : AllocStep(size)
    \/ \E alloc \in allocs : FreeStep(alloc)
    \/ HeadStep
    \/ \E i \in Slots : NextStep(i)
    \/ \E i \in Slots : IsUsedStep(i)

SpecRead == Init /\ [][NextRead]_vars

\* The two builds side by side: allocator is the pair of the C and the Odin
\* allocator, given the same calls for as long as they agree
Outcome(r) == [res |-> r.res, alloc |-> r.alloc]

Agree(rc, ro) == ~rc.fault /\ ~ro.fault /\ Outcome(rc) = Outcome(ro) /\ rc.a = ro.a

Verdict(rc, ro) ==
    IF rc.fault \/ ro.fault THEN "fault"
    ELSE IF Agree(rc, ro) THEN "ok" ELSE "diverged"

InitBoth ==
    /\ lang = "both"
    /\ total_size \in TotalSizes
    /\ allocator = [c |-> block_allocator_init("c", total_size),
                    odin |-> block_allocator_init("odin", total_size)]
    /\ allocs = {}
    /\ calls = 0
    /\ status = "ok"
    /\ last = [op |-> "init", size |-> total_size,
               c |-> [res |-> BLOCK_ALLOCATOR_SUCCESS, alloc |-> NoAllocation],
               odin |-> [res |-> BLOCK_ALLOCATOR_SUCCESS, alloc |-> NoAllocation]]

AllocBoth(size) ==
    /\ status = "ok"
    /\ calls < MaxCalls
    /\ calls' = calls + 1
    /\ \E rc \in {block_allocator_alloc(allocator.c, size)} :
       \E ro \in {block_alloc(allocator.odin, size)} :
           /\ allocator' = [c |-> rc.a, odin |-> ro.a]
           /\ last' = [op |-> "alloc", size |-> size,
                       c |-> Outcome(rc), odin |-> Outcome(ro)]
           /\ status' = Verdict(rc, ro)
           /\ allocs' = IF Agree(rc, ro) /\ rc.res = BLOCK_ALLOCATOR_SUCCESS
                        THEN allocs \cup {rc.alloc} ELSE allocs
    /\ UNCHANGED <<lang, total_size>>

FreeBoth(alloc) ==
    /\ status = "ok"
    /\ calls < MaxCalls
    /\ calls' = calls + 1
    /\ alloc \in allocs
    /\ \E rc \in {block_allocator_free(allocator.c, alloc)} :
       \E ro \in {block_free(allocator.odin, alloc)} :
           /\ allocator' = [c |-> rc.a, odin |-> ro.a]
           /\ last' = [op |-> "free", size |-> alloc.size,
                       c |-> [res |-> BLOCK_ALLOCATOR_SUCCESS, alloc |-> alloc],
                       odin |-> [res |-> BLOCK_ALLOCATOR_SUCCESS, alloc |-> alloc]]
           /\ status' = IF rc.fault \/ ro.fault THEN "fault"
                        ELSE IF rc.a = ro.a THEN "ok" ELSE "diverged"
           /\ allocs' = allocs \ {alloc}
    /\ UNCHANGED <<lang, total_size>>

NextBoth ==
    \/ \E size \in AllocSizes(total_size) : AllocBoth(size)
    \/ \E alloc \in allocs : FreeBoth(alloc)

SpecBoth == InitBoth /\ [][NextBoth]_vars

-----------------------------------------------------------------------------
\* Vocabulary of the properties

Returned == status = "ok"

\* The spatial chain as the sequence of block indices met from head_block along
\* mem_next, cut at the first index outside the pool and after MaxAllocs + 1
\* blocks (a longer walk has met a cycle).
RECURSIVE Walk(_, _, _)
Walk(a, i, fuel) ==
    IF fuel = 0 \/ ~InPool(i) THEN <<>>
    ELSE <<i[2]>> \o Walk(a, a.blocks[i[2]].mem_next, fuel - 1)

Chain(a) == Walk(a, a.head_block, MaxAllocs + 1)

\* offset + size computed without wrap-around
NoWrap(offset, size) == Le32(offset, Add32(offset, size)) /\ Le32(size, Add32(offset, size))

\* the chain starts at 0, is contiguous, doubly linked, and ends at total
ChainExact(a, total) ==
    LET c == Chain(a)
        n == Len(c)
        B(k) == a.blocks[c[k]]
    IN  /\ n >= 1 /\ n <= MaxAllocs
        /\ B(1).offset = ZERO32
        /\ B(1).mem_prev = BLOCK_ALLOCATOR_UNUSED
        /\ B(n).mem_next = BLOCK_ALLOCATOR_UNUSED
        /\ Add32(B(n).offset, B(n).size) = total
        /\ \A k \in 1..n :
               /\ B(k).size # ZERO32
               /\ NoWrap(B(k).offset, B(k).size)
               /\ k < n => /\ Add32(B(k).offset, B(k).size) = B(k + 1).offset
                           /\ B(k + 1).mem_prev = U32(c[k])

\* [offset, offset + size) lies in [0, total)
InsideTotal(x, total) ==
    NoWrap(x.offset, x.size) /\ Le32(Add32(x.offset, x.size), total)

\* two byte ranges that do not wrap share no byte
Disjoint(x, y) ==
    \/ Le32(Add32(x.offset, x.size), y.offset)
    \/ Le32(Add32(y.offset, y.size), x.offset)

\* the state a failed call must leave alone: bitmaps, bin heads, head_block,
\* free_offset and every live block record
SameLive(a, b) ==
    /\ a.top_bins = b.top_bins
    /\ a.bottom_bins = b.bottom_bins
    /\ a.bin_lists = b.bin_lists
    /\ a.head_block = b.head_block
    /\ a.free_offset = b.free_offset
    /\ LiveSlots(a) = LiveSlots(b)
    /\ \A i \in LiveSlots(a) : a.blocks[i] = b.blocks[i]

\* the sizes alloc may be given under its contract: 1 <= size <= total_size
ContractSizes == AllocSizes(total_size) \ {ZERO32}

\* the head of the bin alloc(size) would pop, when its search finds one
Selected(size) ==
    LET f == FindBin(lang, allocator, size)
    IN  [found |-> f.found,
         head  |-> IF f.found /\ f.bottom < 8
                   THEN allocator.bin_lists[f.top * 8 + f.bottom]
                   ELSE BLOCK_ALLOCATOR_UNUSED]

-----------------------------------------------------------------------------
\* C1: the outstanding allocations are pairwise disjoint byte ranges, each
\* inside [0, total_size).
C1_OutstandingDisjointInside ==
    Returned =>
        /\ \A x \in allocs : InsideTotal(x, total_size)
        /\ \A x \in allocs : \A y \in allocs \ {x} : Disjoint(x, y)

\* C2: whenever alloc(size), 1 <= size <= total_size, selects a block to pop,
\* the block's size is >= size (the remainder does not underflow), and a
\* successful alloc returns exactly the requested size.
C2_SelectedBlockLargeEnough ==
    Returned =>
        /\ \A size \in ContractSizes :
               LET sel == Selected(size)
               IN  sel.found /\ InPool(sel.head) =>
                       Le32(size, allocator.blocks[sel.head[2]].size)
        /\ (last.op = "alloc" /\ last.res = BLOCK_ALLOCATOR_SUCCESS) =>
               last.alloc.size = last.size

\* C3: after every public call the spatial chain is exact: it starts at a
\* block with offset 0 and no predecessor, every block has size > 0 and does
\* not wrap, each block ends where its successor starts, successors point
\* back, and the last block ends at total_size.
C3_ChainExact == Returned => ChainExact(allocator, total_size)

C5_FailedAllocChangesNothing ==
    [][(last'.op = "alloc" /\ calls' = calls + 1
        /\ last'.res = BLOCK_ALLOCATOR_OUT_OF_MEMORY)
       => SameLive(allocator', allocator)]_vars

\* some free block is at least size bytes long
FreeBlockOfSize(a, size) ==
    \E i \in LiveSlots(a) :
        /\ ~block_allocator_is_used(a.blocks[i])
        /\ Le32(size, a.blocks[i].size)

\* C6 as claimed: whenever some free block has size >= size and the pool has
\* a slot left, alloc(size), size >= 1, succeeds.
C6_SucceedsWhenLargeEnoughBlockExists ==
    Returned =>
        \A size \in ContractSizes :
            (FreeBlockOfSize(allocator, size) /\ allocator.free_offset # U32(MaxAllocs))
            => LET r == Alloc(lang, allocator, size)
               IN  ~r.fault /\ r.res = BLOCK_ALLOCATOR_SUCCESS

\* bins strictly above the bin of size that the bitmaps mark resident
MarkedAbove(a, size) ==
    {k \in (size_to_bin_index(size).index + 1)..255 :
        (a.bottom_bins[k \div 8] \div (2 ^ (k % 8))) % 2 = 1}

Lowest(S) == CHOOSE k \in S : \A j \in S : k <= j

\* C6 as amended: alloc(size), size >= 1, looks only at bins strictly above
\* the bin of size. It returns OutOfMemory whenever the bitmaps mark no such
\* bin, even if a free block of size >= size exists; and whenever the lowest
\* marked bin above has a head block of size >= size and the pool has a slot
\* left, it succeeds and returns that head block.
C6_SucceedsWhenHigherBinHeadFits ==
    Returned =>
        \A size \in ContractSizes :
            LET above == MarkedAbove(allocator, size)
                r     == Alloc(lang, allocator, size)
                h     == allocator.bin_lists[Lowest(above)]
            IN  /\ above = {} =>
                       ~r.fault /\ r.res = BLOCK_ALLOCATOR_OUT_OF_MEMORY
                /\ (/\ above # {}
                    /\ InPool(h)
                    /\ Le32(size, allocator.blocks[h[2]].size)
                    /\ allocator.free_offset # U32(MaxAllocs))
                   => /\ ~r.fault
                      /\ r.res = BLOCK_ALLOCATOR_SUCCESS
                      /\ r.alloc.metadata = h

\* C6, the case that refutes the claim: an alloc within the contract returned
\* OutOfMemory although a free block of sufficient size and a pool slot exist
C6_RefusedDespiteLargeEnoughBlock ==
    /\ Returned
    /\ last.op = "alloc"
    /\ last.size # ZERO32
    /\ last.res = BLOCK_ALLOCATOR_OUT_OF_MEMORY
    /\ FreeBlockOfSize(allocator, last.size)
    /\ allocator.free_offset # U32(MaxAllocs)

\* alloc(total_size) was the first call after init
FirstCallAllocTotal ==
    calls = 1 /\ last.op = "alloc" /\ last.size = total_size

\* C7 as claimed: on a fresh allocator alloc(total_size) succeeds with offset 0
\* and size total_size and leaves one used block, empty bins and zero bitmaps.
C7_FreshAllocTotalSucceeds ==
    FirstCallAllocTotal =>
        /\ Returned
        /\ last.res = BLOCK_ALLOCATOR_SUCCESS
        /\ last.alloc.offset = ZERO32
        /\ last.alloc.size = total_size
        /\ Len(Chain(allocator)) = 1
        /\ block_allocator_is_used(allocator.blocks[allocator.head_block[2]])
        /\ \A k \in 0..255 : allocator.bin_lists[k] = BLOCK_ALLOCATOR_UNUSED
        /\ allocator.top_bins = ZERO32
        /\ \A t \in 0..31 : allocator.bottom_bins[t] = 0

\* C7 as amended: on a fresh allocator alloc(total_size) returns OutOfMemory
\* (the only resident bin is the bin of total_size, and the search is strictly
\* above it) and leaves the allocator exactly as init left it.
C7_FreshAllocTotalFails ==
    FirstCallAllocTotal =>
        /\ Returned
        /\ last.res = BLOCK_ALLOCATOR_OUT_OF_MEMORY
        /\ allocator = block_allocator_init(lang, total_size)
        /\ allocs = {}

C7_FreshAllocTotalDone ==
    FirstCallAllocTotal /\ total_size = BLOCK_ALLOCATOR_UNUSED /\ lang = "c"

\* no block of size 0 on the spatial chain
NoZeroSized(a) == \A k \in 1..Len(Chain(a)) : a.blocks[Chain(a)[k]].size # ZERO32

\* C8: alloc(0) fails with OutOfMemory in every reachable state and changes
\* nothing; no zero-sized block is ever on the spatial chain.
C8_AllocZeroRejected ==
    [][(last'.op = "alloc" /\ calls' = calls + 1 /\ last'.size = ZERO32)
       => /\ last'.res = BLOCK_ALLOCATOR_OUT_OF_MEMORY
          /\ SameLive(allocator', allocator)
          /\ NoZeroSized(allocator')]_vars

\* a free has just undone the alloc that came right before it
AllocThenFree ==
    Returned /\ last.op = "free" /\ last.after_alloc

Exchange(v, p, q) == IF v = p THEN q ELSE IF v = q THEN p ELSE v

\* b is a with the block of slot p moved to slot q: every link that named p
\* names q, head_block names q when the block starts at offset 0 (insert sets
\* it so) and is otherwise the same, everything else is equal
SameWithSlotMoved(a, b, p, q) ==
    /\ a.top_bins = b.top_bins
    /\ a.bottom_bins = b.bottom_bins
    /\ a.free_offset = b.free_offset
    /\ b.head_block = (IF a.blocks[p[2]].offset = ZERO32 THEN q ELSE a.head_block)
    /\ \A k \in 0..255 : b.bin_lists[k] = Exchange(a.bin_lists[k], p, q)
    /\ LiveSlots(b) = {Exchange(U32(i), p, q)[2] : i \in LiveSlots(a)}
    /\ \A i \in LiveSlots(a) :
           LET x == a.blocks[i]
               y == b.blocks[Exchange(U32(i), p, q)[2]]
           IN  /\ y.offset = x.offset
               /\ y.size = x.size
               /\ y.bin_prev = Exchange(x.bin_prev, p, q)
               /\ y.bin_next = Exchange(x.bin_next, p, q)
               /\ y.mem_prev = Exchange(x.mem_prev, p, q)
               /\ y.mem_next = Exchange(x.mem_next, p, q)

C10_EmptyEqualsPostInit ==
    (Returned /\ allocs = {}) =>
        SameLive(allocator, block_allocator_init(lang, total_size))

-----------------------------------------------------------------------------
\* Bin lists

\* The blocks of bin k as the sequence of indices met from bin_lists[k] along
\* bin_next, cut at the first index outside the pool and after MaxAllocs + 1
\* blocks
RECURSIVE BinWalk(_, _, _)
BinWalk(a, i, fuel) ==
    IF fuel = 0 \/ ~InPool(i) THEN <<>>
    ELSE <<i[2]>> \o BinWalk(a, a.blocks[i[2]].bin_next, fuel - 1)

BinList(a, k) == BinWalk(a, a.bin_lists[k], MaxAllocs + 1)

\* how many times block i is met on the list of bin k
TimesOnBin(a, i, k) ==
    Cardinality({n \in 1..Len(BinList(a, k)) : BinList(a, k)[n] = i})

\* the bins on whose list block i is met
BinsHolding(a, i) ==
    {k \in 0..255 : a.bin_lists[k] # BLOCK_ALLOCATOR_UNUSED /\ TimesOnBin(a, i, k) > 0}

\* C11: after every public call, a live block is used (bin_prev and bin_next
\* both UNUSED) iff no bin list reaches it, and every block that is not used
\* is reached from exactly one bin head, exactly once.
C11_UsedIffOnNoBin ==
    Returned =>
        \A i \in LiveSlots(allocator) :
            /\ block_allocator_is_used(allocator.blocks[i])
                   <=> BinsHolding(allocator, i) = {}
            /\ ~block_allocator_is_used(allocator.blocks[i]) =>
                   /\ Cardinality(BinsHolding(allocator, i)) = 1
                   /\ \A k \in BinsHolding(allocator, i) :
                          TimesOnBin(allocator, i, k) = 1

\* a bin holds two blocks and a used block is live
C11_BinOfTwo ==
    /\ Returned
    /\ \E k \in 0..255 : Len(BinList(allocator, k)) = 2
    /\ \E i \in LiveSlots(allocator) : block_allocator_is_used(allocator.blocks[i])

\* bit b of the 8-bit value x
Bit8(x, b) == (x \div (2 ^ b)) % 2

\* the bitmaps of a agree with its bin heads
BitmapsAgree(a) ==
    /\ \A t \in 0..31 : Bit32(a.top_bins, t) = 1 <=> a.bottom_bins[t] # 0
    /\ \A t \in 0..31 : \A b \in 0..7 :
           Bit8(a.bottom_bins[t], b) = 1
               <=> a.bin_lists[8 * t + b] # BLOCK_ALLOCATOR_UNUSED

\* C12: after every public call, including an alloc that fails because the
\* block pool is full, bit t of top_bins is set iff bottom_bins[t] # 0 and
\* bit b of bottom_bins[t] is set iff bin_lists[8t + b] # UNUSED.
C12_BitmapsAgreeWithBinHeads == Returned => BitmapsAgree(allocator)

\* what head() followed by repeated next() yields: the offset and the used
\* flag of each block visited
Traversal(a) ==
    [k \in 1..Len(Chain(a)) |->
        <<a.blocks[Chain(a)[k]].offset,
          block_allocator_is_used(a.blocks[Chain(a)[k]])>>]

\* three alloc(256) on a fresh allocator, then free of the second allocation
ThreeAllocsMiddleFreed ==
    /\ Returned
    /\ calls = 4
    /\ last.op = "free"
    /\ last.alloc.offset = U32(256) /\ last.alloc.size = U32(256)
    /\ {<<x.offset, x.size>> : x \in allocs}
           = {<<ZERO32, U32(256)>>, <<U32(512), U32(256)>>}

\* head() then next() visits every live block once, by increasing offset from
\* 0, and ends on the block that ends at total_size
TraversalExact(a, total) ==
    LET c == Chain(a)
        n == Len(c)
        B(k) == a.blocks[c[k]]
    IN  /\ n >= 1
        /\ n = Cardinality(LiveSlots(a))
        /\ {c[k] : k \in 1..n} = LiveSlots(a)
        /\ B(1).offset = ZERO32
        /\ \A k \in 1..(n - 1) : Lt32(B(k).offset, B(k + 1).offset)
        /\ B(n).mem_next = BLOCK_ALLOCATOR_UNUSED
        /\ Add32(B(n).offset, B(n).size) = total

\* C13: in every reachable state head() followed by repeated next() visits
\* every live block exactly once in strictly increasing offset order starting
\* at offset 0 and ends on the block that ends at total_size; after three
\* alloc(256) and free of the second allocation the traversal is
\* (0, used), (256, free), (512, used), (768, free).
C13_TraversalVisitsAll ==
    /\ Returned => TraversalExact(allocator, total_size)
    /\ ThreeAllocsMiddleFreed =>
           Traversal(allocator) = << <<ZERO32, TRUE>>, <<U32(256), FALSE>>,
                                     <<U32(512), TRUE>>, <<U32(768), FALSE>> >>

\* how many of the two spatial neighbours of the block of alloc are free
FreeNeighbours(a, alloc) ==
    LET block == a.blocks[alloc.metadata[2]]
        IsFree(i) == InPool(i) /\ ~block_allocator_is_used(a.blocks[i[2]])
    IN  (IF IsFree(block.mem_prev) THEN 1 ELSE 0)
        + (IF IsFree(block.mem_next) THEN 1 ELSE 0)

\* C14 as claimed: after an alloc has failed with the block pool full, the
\* free of any outstanding handle that follows leaves free_offset below the
\* capacity.
C14_FreeAfterPoolFullRestoresCapacity ==
    [][(/\ last.op = "alloc"
        /\ last.res = BLOCK_ALLOCATOR_OUT_OF_MEMORY
        /\ allocator.free_offset = U32(MaxAllocs)
        /\ last'.op = "free"
        /\ status' = "ok")
       => Lt32(allocator'.free_offset, U32(MaxAllocs))]_vars

\* C14 as amended: a free that returns lowers free_offset by the number of
\* free spatial neighbours the freed block had (0, 1 or 2): it releases the
\* freed slot and each absorbed neighbour's slot and takes one slot for the
\* merged block. With the pool full, capacity comes back only when the freed
\* block has a free neighbour; otherwise free_offset stays at the capacity.
C14_FreeReleasesAbsorbedSlots ==
    [][(last'.op = "free" /\ calls' = calls + 1 /\ status' = "ok")
       => allocator'.free_offset =
              Sub32(allocator.free_offset,
                    U32(FreeNeighbours(allocator, last'.alloc)))]_vars

\* a free in a full pool has returned and the pool is still full
C14_FreedButStillFull ==
    /\ Returned
    /\ last.op = "free"
    /\ ~last.after_alloc
    /\ last.size # ZERO32
    /\ last.before.free_offset = U32(MaxAllocs)
    /\ allocator.free_offset = U32(MaxAllocs)

\* the allocator holds the single free block {0, total} in slot 0, on bin
\* index, and nothing else
PostInitShape(a, total, index) ==
    /\ a.blocks[0] = Block(ZERO32, total, Or32(BLOCK_ALLOCATOR_HEAD_BITS, U32(index)),
                           BLOCK_ALLOCATOR_UNUSED, BLOCK_ALLOCATOR_UNUSED,
                           BLOCK_ALLOCATOR_UNUSED)
    /\ a.head_block = ZERO32
    /\ a.free_offset = ONE32
    /\ \A k \in 0..255 :
          a.bin_lists[k] = IF k = index THEN ZERO32 ELSE BLOCK_ALLOCATOR_UNUSED
    /\ a.top_bins = Shl1(index \div 8)
    /\ \A t \in 0..31 :
          a.bottom_bins[t] = IF t = index \div 8 THEN 2 ^ (index % 8) ELSE 0

\* C15 as claimed: after init(total_size) the allocator holds exactly one free
\* block {0, total_size} with no neighbours, alone on the bin of total_size,
\* the bitmaps mark exactly that bin and free_offset is 1; for
\* total_size = 0xffffffff that bin is 255.
C15_PostInitMaxOnBin255 ==
    calls = 0 =>
        PostInitShape(allocator, total_size,
                      IF total_size = BLOCK_ALLOCATOR_UNUSED THEN 255
                      ELSE size_to_bin_index(total_size).index)

\* C15 as amended: the same post-init state, and for total_size = 0xffffffff
\* the bin is 231 (top 28, bottom 7), the highest bin the mapping produces;
\* total sizes 1, 16 and 2^31 land on bins 1, 8 and 224.
C15_PostInitMaxOnBin231 ==
    calls = 0 =>
        /\ PostInitShape(allocator, total_size,
                         IF total_size = BLOCK_ALLOCATOR_UNUSED THEN 231
                         ELSE size_to_bin_index(total_size).index)
        /\ total_size = ONE32 => allocator.bin_lists[1] = ZERO32
        /\ total_size = U32(16) => allocator.bin_lists[8] = ZERO32
        /\ total_size = Shl1(31) => allocator.bin_lists[224] = ZERO32

\* init(0xffffffff) has returned
C15_InitMaxDone ==
    /\ calls = 0
    /\ last.op = "init"
    /\ total_size = BLOCK_ALLOCATOR_UNUSED
    /\ allocator.blocks[0].size = BLOCK_ALLOCATOR_UNUSED

\* free, carried up to its call of insert, has a slot for the merged block
\* and the insert reports success
InsertInFreeSucceeds(lg, a, alloc) ==
    LET AtInsert(s) ==
            ~s.fault =>
                /\ Lt32(s.a.free_offset, U32(MaxAllocs))
                /\ Insert(lg, s.a, s.block.offset, s.block.size,
                          s.block.mem_prev, s.block.mem_next).res
                       = BLOCK_ALLOCATOR_SUCCESS
    IN  AtInsert(FreeRelease(a, alloc))

\* C16: free never fails for lack of a block slot: it releases the slot of the
\* freed block (and of each absorbed neighbour) before it inserts the merged
\* block, so free_offset is below the capacity at the insert and the insert
\* succeeds, for every outstanding handle in every reachable state.
C16_FreeAlwaysHasSlot ==
    Returned =>
        \A alloc \in allocs :
            (lang = "c" /\ alloc.size = ZERO32)
            \/ InsertInFreeSucceeds(lang, allocator, alloc)

\* a free in a full pool, of a block without a free neighbour, has returned
\* and the freed block is back on a bin
C16_FreedInFullPool ==
    /\ Returned
    /\ last.op = "free"
    /\ ~last.after_alloc
    /\ last.before.free_offset = U32(MaxAllocs)
    /\ FreeNeighbours(last.before, last.alloc) = 0
    /\ last.alloc.metadata[2] \in LiveSlots(allocator)
    /\ ~block_allocator_is_used(allocator.blocks[last.alloc.metadata[2]])
    /\ allocator.blocks[last.alloc.metadata[2]].size = last.alloc.size

\* the non-empty bins strictly above the bin of size
HigherBins(a, size) ==
    {k \in (size_to_bin_index(size).index + 1)..255 :
        a.bin_lists[k] # BLOCK_ALLOCATOR_UNUSED}

\* alloc(1024), alloc(2048), free of the 1024 allocation and alloc(768) have
\* returned, on a total of 4096
HoleReused ==
    /\ Returned
    /\ total_size = U32(4096)
    /\ calls = 4
    /\ last.op = "alloc"
    /\ last.size = U32(768)
    /\ last.res = BLOCK_ALLOCATOR_SUCCESS
    /\ \E x \in allocs : x.offset = U32(1024) /\ x.size = U32(2048)
    /\ Cardinality(allocs) = 2
    /\ last.before.blocks[last.before.head_block[2]].size = U32(1024)
    /\ ~block_allocator_is_used(last.before.blocks[last.before.head_block[2]])

\* the 768 bytes were taken from the hole at offset 0 and the rest of the
\* hole is a free block {768, 256}
HoleSplit(a) ==
    /\ last.alloc.offset = ZERO32
    /\ \E i \in LiveSlots(a) :
          /\ a.blocks[i].offset = U32(768)
          /\ a.blocks[i].size = U32(256)
          /\ ~block_allocator_is_used(a.blocks[i])

\* C17: alloc searches strictly upward. A successful alloc(size) pops the head
\* of the lowest non-empty bin above bin(size); alloc returns OutOfMemory,
\* without popping anything, exactly when no bin above bin(size) is
\* non-empty. After alloc(1024), alloc(2048), free(1024), alloc(768) takes the
\* hole at offset 0 and leaves a free hole of 256 at offset 768.
C17_StrictlyUpwardSearch ==
    /\ (Returned /\ last.op = "alloc" /\ last.size # ZERO32) =>
          LET above == HigherBins(last.before, last.size)
          IN  /\ (last.res = BLOCK_ALLOCATOR_OUT_OF_MEMORY) <=> (above = {})
              /\ last.res = BLOCK_ALLOCATOR_OUT_OF_MEMORY =>
                    allocator.bin_lists = last.before.bin_lists
              /\ last.res = BLOCK_ALLOCATOR_SUCCESS =>
                    /\ last.alloc.metadata = last.before.bin_lists[Lowest(above)]
                    /\ allocator.bin_lists[Lowest(above)] # last.alloc.metadata
    /\ HoleReused => HoleSplit(allocator)

\* C18: the size-to-bin mapping is monotone for all sizes >= 1, sizes below
\* 16 included: a <= b implies bin(a) <= bin(b).
C18_BinIndexMonotone ==
    last.op = "size_to_bin_index" =>
        (Le32(total_size, last.size) =>
            last.bin_of_total.index <= last.bin_of_size.index)

\* the successful alloc that took block b = {o, S} of before and returned
\* alloc left b in place, used, with the requested size
PoppedBlockShrunk(before, after, size, alloc) ==
    LET b == alloc.metadata[2]
    IN  /\ alloc = Allocation(before.blocks[b].offset, size, alloc.metadata)
        /\ b \in LiveSlots(before) /\ b \in LiveSlots(after)
        /\ ~block_allocator_is_used(before.blocks[b])
        /\ block_allocator_is_used(after.blocks[b])
        /\ after.blocks[b].offset = before.blocks[b].offset
        /\ after.blocks[b].size = size
        /\ after.blocks[b].mem_prev = before.blocks[b].mem_prev

\* exactly one block n was created: the free remainder {o + size, S - size},
\* linked between b and the former mem_next of b, head of bin(S - size)
RemainderCreated(before, after, size, alloc) ==
    LET b == alloc.metadata[2]
        old == before.blocks[b]
        n == before.free_blocks[before.free_offset[2]]
        rest == Sub32(old.size, size)
    IN  /\ after.free_offset = Add32(before.free_offset, ONE32)
        /\ LiveSlots(after) = LiveSlots(before) \cup {n[2]}
        /\ n[2] \notin LiveSlots(before)
        /\ after.blocks[n[2]].offset = Add32(old.offset, size)
        /\ after.blocks[n[2]].size = rest
        /\ ~block_allocator_is_used(after.blocks[n[2]])
        /\ after.blocks[n[2]].mem_prev = alloc.metadata
        /\ after.blocks[n[2]].mem_next = old.mem_next
        /\ after.blocks[b].mem_next = n
        /\ old.mem_next # BLOCK_ALLOCATOR_UNUSED =>
              after.blocks[old.mem_next[2]].mem_prev = n
        /\ after.bin_lists[size_to_bin_index(rest).index] = n
        /\ after.blocks[n[2]].bin_prev =
              Or32(BLOCK_ALLOCATOR_HEAD_BITS, U32(size_to_bin_index(rest).index))

\* no block was created
NothingCreated(before, after, alloc) ==
    /\ after.free_offset = before.free_offset
    /\ LiveSlots(after) = LiveSlots(before)
    /\ after.blocks[alloc.metadata[2]].mem_next =
          before.blocks[alloc.metadata[2]].mem_next

\* C19: a successful alloc(size) that pops the free block b = {o, S} returns
\* {o, size, b}; b stays at its index and becomes used with size exactly
\* size; if S > size exactly one free block {o + size, S - size} is created,
\* linked between b and the former mem_next of b, on bin(S - size), and
\* free_offset grows by 1; if S = size no block is created and free_offset is
\* unchanged.
C19_SplitOnSuccess ==
    (Returned /\ last.op = "alloc" /\ last.res = BLOCK_ALLOCATOR_SUCCESS) =>
        /\ PoppedBlockShrunk(last.before, allocator, last.size, last.alloc)
        /\ Lt32(last.size, last.before.blocks[last.alloc.metadata[2]].size) =>
              RemainderCreated(last.before, allocator, last.size, last.alloc)
        /\ last.size = last.before.blocks[last.alloc.metadata[2]].size =>
              NothingCreated(last.before, allocator, last.alloc)

\* a successful alloc has split a block that had a successor
C19_SplitBeforeSuccessor ==
    /\ Returned
    /\ last.op = "alloc"
    /\ last.res = BLOCK_ALLOCATOR_SUCCESS
    /\ last.size # ZERO32
    /\ Lt32(last.size, last.before.blocks[last.alloc.metadata[2]].size)
    /\ last.before.blocks[last.alloc.metadata[2]].mem_next # BLOCK_ALLOCATOR_UNUSED

\* free(alloc) turned before into after: the freed block and exactly its free
\* neighbours are gone, one free block stands for them, the outer neighbours
\* point back to it, and a used neighbour is left as it was
MergedByFree(before, after, alloc) ==
    LET b == alloc.metadata[2]
        block == before.blocks[b]
        IsFree(i) == InPool(i) /\ ~block_allocator_is_used(before.blocks[i[2]])
        IsUsed(i) == InPool(i) /\ block_allocator_is_used(before.blocks[i[2]])
        prev_free == IsFree(block.mem_prev)
        next_free == IsFree(block.mem_next)
        prev_block == before.blocks[block.mem_prev[2]]
        next_block == before.blocks[block.mem_next[2]]
        gone == {b} \cup (IF prev_free THEN {block.mem_prev[2]} ELSE {})
                    \cup (IF next_free THEN {block.mem_next[2]} ELSE {})
        offset == IF prev_free THEN prev_block.offset ELSE block.offset
        size == Add32(Add32(block.size, IF prev_free THEN prev_block.size ELSE ZERO32),
                      IF next_free THEN next_block.size ELSE ZERO32)
        outer_prev == IF prev_free THEN prev_block.mem_prev ELSE block.mem_prev
        outer_next == IF next_free THEN next_block.mem_next ELSE block.mem_next
        Kept(i) == /\ i[2] \in LiveSlots(after)
                   /\ block_allocator_is_used(after.blocks[i[2]])
                   /\ after.blocks[i[2]].offset = before.blocks[i[2]].offset
                   /\ after.blocks[i[2]].size = before.blocks[i[2]].size
    IN  /\ \E m \in LiveSlots(after) :
              /\ LiveSlots(after) = (LiveSlots(before) \ gone) \cup {m}
              /\ m \in gone
              /\ after.blocks[m].offset = offset
              /\ after.blocks[m].size = size
              /\ ~block_allocator_is_used(after.blocks[m])
              /\ after.blocks[m].mem_prev = outer_prev
              /\ after.blocks[m].mem_next = outer_next
              /\ InPool(outer_prev) => after.blocks[outer_prev[2]].mem_next = U32(m)
              /\ InPool(outer_next) => after.blocks[outer_next[2]].mem_prev = U32(m)
        /\ IsUsed(block.mem_prev) => Kept(block.mem_prev)
        /\ IsUsed(block.mem_next) => Kept(block.mem_next)

\* the free block {256, 256} between two used blocks
MiddleHoleAlone(a) ==
    \E i \in LiveSlots(a) :
        /\ a.blocks[i].offset = U32(256)
        /\ a.blocks[i].size = U32(256)
        /\ ~block_allocator_is_used(a.blocks[i])
        /\ block_allocator_is_used(a.blocks[a.blocks[i].mem_prev[2]])
        /\ block_allocator_is_used(a.blocks[a.blocks[i].mem_next[2]])

\* C20: free(h) of an outstanding handle replaces the used block and exactly
\* its free spatial neighbours by one free block, at the offset of the free
\* predecessor if there is one and else of the freed block, of the summed
\* size, linked to the outer neighbours, which point back to it; used
\* neighbours are not absorbed: after three alloc(256), freeing the middle one
\* leaves a free block of 256 between two used blocks.
C20_FreeMergesFreeNeighbours ==
    /\ [][(/\ last'.op = "free"
           /\ calls' = calls + 1
           /\ status' = "ok"
           /\ ~(lang = "c" /\ last'.alloc.size = ZERO32))
          => MergedByFree(allocator, allocator', last'.alloc)]_vars
    /\ [](ThreeAllocsMiddleFreed => MiddleHoleAlone(allocator))

\* a free has absorbed both neighbours of the freed block
C20_BothNeighboursAbsorbed ==
    /\ Returned
    /\ last.op = "free"
    /\ ~last.after_alloc
    /\ last.size # ZERO32
    /\ FreeNeighbours(last.before, last.alloc) = 2
    /\ ~block_allocator_is_used(allocator.blocks[allocator.head_block[2]])

\* the list of bin k is a well-formed doubly-linked list of live free blocks
BinListWellFormed(a, k) ==
    LET list == BinList(a, k)
        n == Len(list)
    IN  IF a.bin_lists[k] = BLOCK_ALLOCATOR_UNUSED THEN TRUE
        ELSE /\ InPool(a.bin_lists[k])
             /\ n <= MaxAllocs
             /\ \A i, j \in 1..n : i # j => list[i] # list[j]
             /\ a.blocks[list[n]].bin_next = BLOCK_ALLOCATOR_UNUSED
             /\ \A i \in 1..n : list[i] \in LiveSlots(a)
             /\ a.blocks[list[1]].bin_prev = Or32(BLOCK_ALLOCATOR_HEAD_BITS, U32(k))
             /\ \A i \in 2..n :
                   /\ a.blocks[list[i]].bin_prev = U32(list[i - 1])
                   /\ ~block_allocator_is_used(a.blocks[list[i - 1]])
                   /\ a.blocks[list[i - 1]].bin_next = U32(list[i])

StoredIndices(a) ==
    {a.head_block}
    \cup {a.bin_lists[k] : k \in {j \in 0..255 : a.bin_lists[j] # BLOCK_ALLOCATOR_UNUSED}}
    \cup UNION {
           {x \in {a.blocks[i].bin_next, a.blocks[i].mem_prev, a.blocks[i].mem_next} :
               x # BLOCK_ALLOCATOR_UNUSED}
           \cup (IF And32(a.blocks[i].bin_prev, BLOCK_ALLOCATOR_HEAD_BITS) = ZERO32
                 THEN {a.blocks[i].bin_prev} ELSE {})
           : i \in LiveSlots(a)}

\* the entries free_blocks[free_offset .. capacity-1] are pairwise distinct
FreeEntriesDistinct(a) ==
    \A i, j \in {n \in Slots : n >= a.free_offset[2]} :
        i # j => a.free_blocks[i] # a.free_blocks[j]

Without(list, gone) == SelectSeq(list, LAMBDA x : x \notin gone)

\* the slot the last insert took: the entry just below free_offset
LastInserted(a) == a.free_blocks[a.free_offset[2] - 1]

\* Between before and after the blocks of gone left their bin lists and, when
\* inserted, the block last inserted was put at the head of its bin list;
\* every other block kept its list and its place relative to the others.
BinListsLifo(before, after, gone, inserted) ==
    LET m == LastInserted(after)
        bin == And32(after.blocks[m[2]].bin_prev, BLOCK_ALLOCATOR_HEAD_MASK)[2]
    IN  /\ inserted =>
              /\ And32(after.blocks[m[2]].bin_prev, BLOCK_ALLOCATOR_HEAD_BITS)
                     = BLOCK_ALLOCATOR_HEAD_BITS
              /\ bin < 256
              /\ after.bin_lists[bin] = m
        /\ \A k \in 0..255 :
              BinList(after, k) =
                  (IF inserted /\ k = bin THEN <<m[2]>> ELSE <<>>)
                  \o Without(BinList(before, k), gone)

\* the free neighbours of the block of alloc, as block indices
FreeNeighbourSlots(a, alloc) ==
    {nb[2] : nb \in {x \in {a.blocks[alloc.metadata[2]].mem_prev,
                            a.blocks[alloc.metadata[2]].mem_next} :
                        InPool(x) /\ ~block_allocator_is_used(a.blocks[x[2]])}}

C24_ReadsChangeNothing ==
    [][last'.op \in {"head", "next", "is_used"} =>
           /\ allocator' = allocator
           /\ allocs' = allocs
           /\ status' = status]_vars

\* next() has returned the successor of a block while a handle is outstanding
\* and a free block exists
C24_NextReturnedSuccessor ==
    /\ last.op = "next"
    /\ last.res = BLOCK_ALLOCATOR_SUCCESS
    /\ allocs # {}
    /\ ~block_allocator_is_used(last.block)
    /\ last.block.offset # ZERO32

\* block i is in after what it was in before, but for its spatial links
SameButMemLinks(before, after, i) ==
    /\ i \in LiveSlots(after)
    /\ after.blocks[i] = [before.blocks[i] EXCEPT !.mem_prev = after.blocks[i].mem_prev,
                                                  !.mem_next = after.blocks[i].mem_next]

\* the handle h names a live used block with the offset and size of h
HandleValid(a, h) ==
    /\ InPool(h.metadata)
    /\ h.metadata[2] \in LiveSlots(a)
    /\ block_allocator_is_used(a.blocks[h.metadata[2]])
    /\ a.blocks[h.metadata[2]].offset = h.offset
    /\ a.blocks[h.metadata[2]].size = h.size

\* C25: outstanding handles stay valid across operations on other handles:
\* after any alloc or free of a different handle, blocks[handle] is still a
\* live used block with the offset and size of the allocation; alloc and free
\* change at most mem_prev / mem_next of the other used blocks and never move
\* a used block to another index.
C25_OtherHandlesStayValid ==
    [][(calls' = calls + 1 /\ status' = "ok")
       => /\ \A h \in allocs \cap allocs' : HandleValid(allocator', h)
          /\ \A i \in LiveSlots(allocator) :
                (/\ block_allocator_is_used(allocator.blocks[i])
                 /\ ~(last'.op = "free" /\ last'.alloc.metadata = U32(i)
                      /\ ~(lang = "c" /\ last'.alloc.size = ZERO32)))
                => SameButMemLinks(allocator, allocator', i)]_vars

\* a free of another handle has changed the mem_next of the block of an
\* outstanding handle, which is otherwise as it was
C25_NeighbourRelinked ==
    /\ Returned
    /\ last.op = "free"
    /\ ~last.after_alloc
    /\ \E h \in allocs :
          /\ h.size # ZERO32
          /\ HandleValid(allocator, h)
          /\ HandleValid(last.before, h)
          /\ allocator.blocks[h.metadata[2]].mem_next
                 # last.before.blocks[h.metadata[2]].mem_next

\* free(alloc), carried up to its insert call, has lowered free_offset by one
\* for the freed block and one per absorbed neighbour without passing 0
NoUnderflowInFree(a, alloc) ==
    LET AtInsert(s) ==
            /\ ~s.fault
            /\ s.a.free_offset[1] = 0
            /\ s.a.free_offset[2] = a.free_offset[2] - 1 - FreeNeighbours(a, alloc)
    IN  AtInsert(FreeRelease(a, alloc))

\* C26: after every public call free_offset is the number of blocks on the
\* spatial chain from head_block (used and free ones) and lies in
\* 1..capacity; inside free it never passes below 0, also when both
\* neighbours are absorbed.
C26_FreeOffsetCountsChain ==
    Returned =>
        /\ allocator.free_offset[1] = 0
        /\ allocator.free_offset[2] \in 1..MaxAllocs
        /\ Len(Chain(allocator)) = allocator.free_offset[2]
        /\ \A i, j \in 1..Len(Chain(allocator)) :
              i # j => Chain(allocator)[i] # Chain(allocator)[j]
        /\ \A alloc \in allocs :
              (lang = "c" /\ alloc.size = ZERO32)
              \/ NoUnderflowInFree(allocator, alloc)

\* C27: after every public call every free block sits on the bin list of its
\* own size class: a block reached from bin_lists[k] has
\* size_to_bin_index(size) = k for its current size.
C27_BlocksOnBinOfTheirSize ==
    Returned =>
        \A k \in 0..255 :
            \A n \in 1..Len(BinList(allocator, k)) :
                size_to_bin_index(allocator.blocks[BinList(allocator, k)[n]].size).index
                    = k

\* two free blocks of different sizes share a bin after a free
C27_TwoSizesOnOneBin ==
    /\ Returned
    /\ last.op = "free"
    /\ \E k \in 0..255 :
          /\ Len(BinList(allocator, k)) = 2
          /\ allocator.blocks[BinList(allocator, k)[1]].size
                 # allocator.blocks[BinList(allocator, k)[2]].size

\* C28: run side by side on the same total_size, the same capacity and the
\* same sequence of alloc(size), size in 0..total_size, and free of
\* outstanding handles, the C and the Odin build return the same result and
\* the same {offset, size, handle} at every step and keep identical bitmaps,
\* bin lists, block records, head_block and free_offset.
C28_BuildsAgree ==
    /\ status = "ok"
    /\ last.c = last.odin
    /\ allocator.c = allocator.odin

====
